---- MODULE Spec2Model ----
(***************************************************************************)
(* Model of crates/lsp_workspace_command: the LSP workspace command        *)
(* selector (LspWorkspaceCommandSelectorDelegate).                         *)
(*                                                                         *)
(* Strings are sequences of one-character strings.  Rust indices are       *)
(* 0-based and kept 0-based in the state (selected_index, candidate ids,   *)
(* highlight positions); TLA+ sequences are 1-based, so element i of a     *)
(* Vec is seq[i + 1].                                                      *)
(***************************************************************************)
EXTENDS Integers, Sequences, FiniteSets, TLC

\* ---------------------------------------------------------------- bounds
MaxIx == 1          \* set_selected_index is called with ix in 0..MaxIx
MaxEvals == 2       \* update_matches calls per selector
MaxDismiss == 1     \* dismissed calls made by the picker itself (cancel)
MaxShuffle == 2     \* key sets up to this size are iterated in every order

\* max_results handed to match_strings
MaxResults == 100

\* ------------------------------------------------------- string helpers
Str_rust_analyzer == <<"r","u","s","t","-","a","n","a","l","y","z","e","r">>
Str_eslint == <<"e","s","l","i","n","t">>
Str_format == <<"f","o","r","m","a","t">>
Str_organizeImports ==
    <<"o","r","g","a","n","i","z","e","I","m","p","o","r","t","s">>
Str_fixAll == <<"f","i","x","A","l","l">>
Str_bulk == <<"b">>

Min(a, b) == IF a <= b THEN a ELSE b

\* usize::saturating_sub
SaturatingSub(a, b) == IF a >= b THEN a - b ELSE 0

Range(s) == {s[i] : i \in 1..Len(s)}

Reverse(s) == [i \in 1..Len(s) |-> s[Len(s) + 1 - i]]

\* All orderings of a finite set, as sequences without repetition.
Permutations_(S) ==
    {p \in [1..Cardinality(S) -> S] : \A x \in S : \E i \in DOMAIN p : p[i] = x}

\* format!("{}: {}", language_server.name(), command)
\* Variant: the separator without its space.
Format_NoSpace(name, command) == name \o <<":">> \o command

Format(name, command) == name \o <<":", " ">> \o command

\* -------------------------------------------------- provider registries
\* A command token of the bulk provider: "format" followed by the 7 binary
\* digits of k, written "x" for 0 and "y" for 1 (distinct for k < 128).
BulkToken(k) ==
    Str_format
    \o [b \in 1..7 |-> IF (k \div (2 ^ (7 - b))) % 2 = 0 THEN "x" ELSE "y"]

BulkCount == MaxResults + 1

Server(id, name, hasProvider, cmds) ==
    [id |-> id, name |-> name, has_provider |-> hasProvider, commands |-> cmds]

\* What language_servers_for_local_buffer yields when the selector opens,
\* in iteration order.
Registries ==
    { <<Server(1, Str_rust_analyzer, TRUE, <<Str_format, Str_organizeImports>>),
        Server(2, Str_eslint, TRUE, <<Str_fixAll>>)>>,
      <<Server(1, Str_rust_analyzer, TRUE, <<Str_format>>),
        Server(2, Str_rust_analyzer, TRUE, <<Str_format, Str_fixAll>>)>>,
      <<Server(2, Str_rust_analyzer, TRUE, <<Str_format, Str_fixAll>>),
        Server(1, Str_rust_analyzer, TRUE, <<Str_format>>)>>,
      <<Server(1, Str_eslint, FALSE, <<>>),
        Server(2, Str_rust_analyzer, TRUE, <<Str_format>>)>> }

\* One server advertising more commands than match_strings returns.
LargeRegistries ==
    { <<Server(1, Str_bulk, TRUE, [k \in 1..BulkCount |-> BulkToken(k)])>> }

\* The queries the user types.
Queries == { <<>>, Str_format }

VARIABLES
    servers,          \* language_servers_for_local_buffer, in iteration order
    liveServers,      \* ids for which language_server_for_id is Some
    commands,         \* delegate.commands
    candidates,       \* delegate.candidates
    matches,          \* delegate.matches
    selected_index,   \* delegate.selected_index
    tasks,            \* evaluations spawned by update_matches
    applied,          \* ids of the evaluations applied, in order
    cursorFound,      \* the cursor the last applied evaluation found
    requests,         \* ExecuteCommand requests spawned by confirm
    confirmLog,       \* one record per confirm call
    dismissCalls,     \* dismissed calls made by the picker on cancel
    dismissEvents,    \* DismissEvents emitted by the selector
    errorsLogged,     \* errors handed to log_err / detach_and_log_err
    selectorAlive,    \* the LspWorkspaceCommandSelector entity exists
    pickerAlive       \* the Picker entity (owner of the delegate) exists

vars == <<servers, liveServers, commands, candidates, matches, selected_index,
          tasks, applied, cursorFound, requests, confirmLog, dismissCalls,
          dismissEvents, errorsLogged,
          selectorAlive, pickerAlive>>

\* ------------------------------------------------- index construction
\* capabilities().execute_command_provider.map_or_else(|| vec![], ...)
CurrentCommands(server) ==
    IF server.has_provider THEN server.commands ELSE <<>>

\* The commands.insert calls of the two nested loops, in execution order.
RECURSIVE Insertions(_)
Insertions(srvs) ==
    IF srvs = <<>> THEN <<>>
    ELSE LET language_server == Head(srvs)
             current_commands == CurrentCommands(language_server)
         IN  [i \in 1..Len(current_commands) |->
                 [key |-> Format(language_server.name, current_commands[i]),
                  value |-> <<current_commands[i], language_server.id>>]]
             \o Insertions(Tail(srvs))

\* HashMap::insert: an existing key keeps its slot and takes the new value.
HashMapInsert(map, key, value) == (key :> value) @@ map

\* Variant: an existing key keeps its value (entry().or_insert).
RECURSIVE InsertAll_FirstWins(_, _, _)
InsertAll_FirstWins(ins, lo, hi) ==
    IF lo > hi THEN <<>>
    ELSE IF lo = hi THEN (ins[lo].key :> ins[lo].value)
    ELSE LET mid == (lo + hi) \div 2
         IN  InsertAll_FirstWins(ins, lo, mid)
             @@ InsertAll_FirstWins(ins, mid + 1, hi)

\* The map after insertions lo..hi, by halves: an insertion of the later
\* half overwrites an equal key of the earlier half.
RECURSIVE InsertAll(_, _, _)
InsertAll(ins, lo, hi) ==
    IF lo > hi THEN <<>>
    ELSE IF lo = hi THEN HashMapInsert(<<>>, ins[lo].key, ins[lo].value)
    ELSE LET mid == (lo + hi) \div 2
         IN  InsertAll(ins, mid + 1, hi) @@ InsertAll(ins, lo, mid)

\* let mut commands = HashMap::new(); ... the filled map
BuildCommands(srvs) == InsertAll(Insertions(srvs), 1, Len(Insertions(srvs)))

\* The keys in order of first insertion.
FirstInsertionOrder(ins) ==
    LET firsts == {i \in 1..Len(ins) :
                      \A j \in 1..(i - 1) : ins[j].key # ins[i].key}
    IN  [p \in 1..Cardinality(firsts) |->
            ins[CHOOSE i \in firsts :
                    Cardinality({j \in firsts : j < i}) = p - 1].key]

\* HashMap::keys(): the iteration order of a std HashMap is unspecified.
\* Small maps are iterated in every order; larger ones in insertion order
\* or its reverse.
KeyOrders(srvs) ==
    LET keys == DOMAIN BuildCommands(srvs)
        byInsertion == FirstInsertionOrder(Insertions(srvs))
    IN  IF Cardinality(keys) <= MaxShuffle
        THEN Permutations_(keys)
        ELSE {byInsertion, Reverse(byInsertion)}

\* commands.keys().enumerate().map(|(idx, command)|
\*     StringMatchCandidate::new(idx, &command)).collect()
BuildCandidates(keyOrder) ==
    [i \in 1..Len(keyOrder) |-> [id |-> i - 1, string |-> keyOrder[i]]]

\* ------------------------------------------------------- match engine
\* Case folding for the letters that occur in the display strings.
Lower(c) ==
    CASE c = "A" -> "a"
      [] c = "I" -> "i"
      [] OTHER -> c

\* The offsets (0-based) of the leftmost case-insensitive occurrence of
\* the query as a subsequence of str, scanning from 1-based index i for
\* query character q; shorter than the query when there is none.
RECURSIVE MatchPositions(_, _, _, _)
MatchPositions(str, query, i, q) ==
    IF q > Len(query) \/ i > Len(str) THEN <<>>
    ELSE IF Lower(str[i]) = Lower(query[q])
         THEN <<i - 1>> \o MatchPositions(str, query, i + 1, q + 1)
         ELSE MatchPositions(str, query, i + 1, q)

\* Position-aware score: 100 for a contiguous occurrence, less as the
\* matched characters spread out.
MatchScore(positions) ==
    (100 * Len(positions))
        \div (positions[Len(positions)] - positions[1] + 1)

\* The match record of one candidate; its positions are shorter than the
\* query when the candidate does not match.
ScoreCandidate(candidate, query) ==
    LET positions == MatchPositions(candidate.string, query, 1, 1)
    IN  [candidate_id |-> candidate.id,
         string |-> candidate.string,
         positions |-> positions,
         score |-> IF Len(positions) = Len(query)
                   THEN MatchScore(positions) ELSE 0]

\* Result order: descending score, and within one score the order of the
\* candidate list, which is ascending candidate index.
RECURSIVE SortMatches(_, _)
SortMatches(hits, scores) ==
    IF scores = {} THEN <<>>
    ELSE LET top == CHOOSE s \in scores : \A u \in scores : u <= s
             HasTop(m) == m.score = top
         IN  SelectSeq(hits, HasTop) \o SortMatches(hits, scores \ {top})

\* fuzzy::match_strings(candidates, query, smart_case = false,
\*                      penalize_length, max_results, ..)
MatchStrings(cands, query, max_results) ==
    LET IsHit(m) == Len(m.positions) = Len(query)
        hits == SelectSeq([i \in 1..Len(cands) |->
                              ScoreCandidate(cands[i], query)], IsHit)
        sorted == SortMatches(hits, {hits[i].score : i \in 1..Len(hits)})
    IN  SubSeq(sorted, 1, Min(Len(sorted), max_results))

\* Variant: match_strings is asked for as many results as there are
\* candidates.
ComputeMatches_Uncapped(query, cands) ==
    IF query = <<>>
    THEN [index \in 1..Len(cands) |->
             [candidate_id |-> index - 1,
              string |-> cands[index].string,
              positions |-> <<>>,
              score |-> 0]]
    ELSE MatchStrings(cands, query, Len(cands))

\* Variant: the empty query walks the candidates back to front.
ComputeMatches_Reversed(query, cands) ==
    IF query = <<>>
    THEN [index \in 1..Len(cands) |->
             [candidate_id |-> index - 1,
              string |-> cands[Len(cands) + 1 - index].string,
              positions |-> <<>>,
              score |-> 0]]
    ELSE MatchStrings(cands, query, MaxResults)

\* Variant: a non-empty query lists every candidate too, unscored.
ComputeMatches_Unfiltered(query, cands) ==
    [index \in 1..Len(cands) |->
        [candidate_id |-> index - 1,
         string |-> cands[index].string,
         positions |-> <<>>,
         score |-> 0]]

\* Variant: a scored match is numbered by its place in the result.
ComputeMatches_ListPosition(query, cands) ==
    LET result == IF query = <<>>
                  THEN [index \in 1..Len(cands) |->
                           [candidate_id |-> index - 1,
                            string |-> cands[index].string,
                            positions |-> <<>>,
                            score |-> 0]]
                  ELSE MatchStrings(cands, query, MaxResults)
    IN  [i \in 1..Len(result) |->
            [result[i] EXCEPT !.candidate_id = i - 1]]

\* The body of the evaluation spawned by update_matches, up to the
\* write-back: the empty query lists every candidate, any other query goes
\* through match_strings with max_results = 100.
ComputeMatches(query, cands) ==
    IF query = <<>>
    THEN [index \in 1..Len(cands) |->
             [candidate_id |-> index - 1,
              string |-> cands[index].string,
              positions |-> <<>>,
              score |-> 0]]
    ELSE MatchStrings(cands, query, MaxResults)

\* Variant: the cursor is kept as it is.
Clamp_Unclamped(selected, len) == selected

\* Variant: the clamp is off by one.
Clamp_OffByOne(selected, len) == Min(selected, len)

\* selected_index.min(matches.len().saturating_sub(1))
Clamp(selected, len) == Min(selected, SaturatingSub(len, 1))

\* ------------------------------------------------------------- state
ServerIds(srvs) == {srvs[i].id : i \in 1..Len(srvs)}

\* LspWorkspaceCommandSelectorDelegate::new over one of the registries and
\* one iteration order of the map.
New(registries) ==
    \E srvs \in registries :
      \E keyOrder \in KeyOrders(srvs) :
        /\ servers = srvs
        /\ liveServers = ServerIds(srvs)
        /\ commands = BuildCommands(srvs)
        /\ candidates = BuildCandidates(keyOrder)
        /\ matches = <<>>
        /\ selected_index = 0
        /\ tasks = <<>>
        /\ applied = <<>>
        /\ cursorFound = 0
        /\ requests = <<>>
        /\ confirmLog = <<>>
        /\ dismissCalls = 0
        /\ dismissEvents = 0
        /\ errorsLogged = 0
        /\ selectorAlive = TRUE
        /\ pickerAlive = TRUE

Init == New(Registries)

InitLarge == New(LargeRegistries)

\* The modal is displayed and has not asked to be dismissed: the picker
\* receives user input.  (An emitted DismissEvent is delivered to the
\* workspace before the next input event.)
Displayed == selectorAlive /\ pickerAlive /\ dismissEvents = 0

\* Variant: the index is clamped to the match list when it is set.
SetSelectedIndex_Clamped(ix) ==
    /\ Displayed
    /\ selected_index' = Clamp(ix, Len(matches))
    /\ UNCHANGED <<servers, liveServers, commands, candidates, matches, tasks,
                   applied,
                   cursorFound, requests, confirmLog, dismissCalls, dismissEvents,
                   errorsLogged, selectorAlive, pickerAlive>>

\* set_selected_index(ix)
SetSelectedIndex(ix) ==
    /\ Displayed
    /\ selected_index' = ix
    /\ UNCHANGED <<servers, liveServers, commands, candidates, matches, tasks,
                   applied,
                   cursorFound, requests, confirmLog, dismissCalls, dismissEvents,
                   errorsLogged, selectorAlive, pickerAlive>>

\* What the owner of the Tasks returned by update_matches does to the
\* earlier ones when a new one is returned: they are left to run.
Superseded(earlier) == earlier

\* Variant: the candidates are moved into the evaluation, not cloned.
UpdateMatches_Moves(query) ==
    /\ Displayed
    /\ Len(tasks) < MaxEvals
    /\ tasks' = Append(Superseded(tasks),
                       [query |-> query, candidates |-> candidates,
                               pc |-> "running", matches |-> <<>>])
    /\ candidates' = <<>>
    /\ UNCHANGED <<servers, liveServers, commands, matches,
                   selected_index, applied,
                   cursorFound, requests, confirmLog, dismissCalls,
                   dismissEvents, errorsLogged, selectorAlive, pickerAlive>>

\* Variant: the match list is cleared while the evaluation runs.
UpdateMatches_ClearsFirst(query) ==
    /\ Displayed
    /\ Len(tasks) < MaxEvals
    /\ tasks' = Append(Superseded(tasks),
                       [query |-> query, candidates |-> candidates,
                               pc |-> "running", matches |-> <<>>])
    /\ matches' = <<>>
    /\ UNCHANGED <<servers, liveServers, commands, candidates,
                   selected_index, applied,
                   cursorFound, requests, confirmLog, dismissCalls,
                   dismissEvents, errorsLogged, selectorAlive, pickerAlive>>

\* update_matches(query): clone the candidates and spawn the evaluation.
UpdateMatches(query) ==
    /\ Displayed
    /\ Len(tasks) < MaxEvals
    /\ tasks' = Append(Superseded(tasks),
                       [query |-> query, candidates |-> candidates,
                               pc |-> "running", matches |-> <<>>])
    /\ UNCHANGED <<servers, liveServers, commands, candidates, matches,
                   selected_index, applied,
                   cursorFound, requests, confirmLog, dismissCalls,
                   dismissEvents, errorsLogged, selectorAlive, pickerAlive>>

\* Variant: a result older than one already applied is discarded.
ApplyMatches_Sequenced(t, result) ==
    /\ applied' = Append(applied, t)
    /\ cursorFound' = selected_index
    /\ IF \A i \in 1..Len(applied) : applied[i] < t
       THEN /\ matches' = result
            /\ selected_index' = Clamp(selected_index, Len(result))
       ELSE UNCHANGED <<matches, selected_index>>

\* Variant: the result is added to the list instead of replacing it.
ApplyMatches_Extends(t, result) ==
    /\ matches' = matches \o result
    /\ selected_index' = Clamp(selected_index, Len(matches) + Len(result))
    /\ applied' = Append(applied, t)
    /\ cursorFound' = selected_index

\* this.update(cx, |this, cx| { delegate.matches = matches; clamp; notify })
\* for evaluation t holding result.
ApplyMatches(t, result) ==
    /\ matches' = result
    /\ selected_index' = Clamp(selected_index, Len(result))
    /\ applied' = Append(applied, t)
    /\ cursorFound' = selected_index

\* Variant: the write-back goes through a strong handle.
EvaluationCompletes_Unchecked(t) ==
    /\ t \in 1..Len(tasks)
    /\ tasks[t].pc = "running"
    /\ tasks' = [tasks EXCEPT
                    ![t].pc = "finished",
                    ![t].matches = ComputeMatches(tasks[t].query,
                                                  tasks[t].candidates)]
    /\ ApplyMatches(t, tasks'[t].matches)
    /\ UNCHANGED errorsLogged
    /\ UNCHANGED <<servers, liveServers, commands, candidates, requests,
                   confirmLog, dismissCalls, dismissEvents, selectorAlive,
                   pickerAlive>>

\* Evaluation t runs to its end: it computes the matches from its own
\* query and candidate clone and writes them back through the weak picker
\* handle; a failed write-back is logged.
EvaluationCompletes(t) ==
    /\ t \in 1..Len(tasks)
    /\ tasks[t].pc = "running"
    /\ tasks' = [tasks EXCEPT
                    ![t].pc = "finished",
                    ![t].matches = ComputeMatches(tasks[t].query,
                                                  tasks[t].candidates)]
    /\ IF pickerAlive
       THEN /\ ApplyMatches(t, tasks'[t].matches)
            /\ UNCHANGED errorsLogged
       ELSE /\ errorsLogged' = errorsLogged + 1
            /\ UNCHANGED <<matches, selected_index, applied, cursorFound>>
    /\ UNCHANGED <<servers, liveServers, commands, candidates, requests,
                   confirmLog, dismissCalls, dismissEvents, selectorAlive,
                   pickerAlive>>

\* Variant: the cursor indexes the candidate list instead of going through
\* the match.
ConfirmTarget_ByCursor ==
    IF ~(selected_index < Len(matches))
    THEN [outcome |-> "no_match"]
    ELSE LET matched_string == candidates[selected_index + 1].string
         IN  IF matched_string \notin DOMAIN commands
             THEN [outcome |-> "no_entry"]
             ELSE LET v == commands[matched_string]
                  IN  IF v[2] \notin liveServers
                      THEN [outcome |-> "no_server"]
                      ELSE [outcome |-> "requested",
                            command |-> v[1], server |-> v[2]]

\* Variant: the request goes out without looking the server up.
ConfirmTarget_NoLookup ==
    IF ~(selected_index < Len(matches))
    THEN [outcome |-> "no_match"]
    ELSE LET mat == matches[selected_index + 1]
             matched_string == candidates[mat.candidate_id + 1].string
         IN  IF matched_string \notin DOMAIN commands
             THEN [outcome |-> "no_entry"]
             ELSE LET v == commands[matched_string]
                  IN  [outcome |-> "requested",
                       command |-> v[1], server |-> v[2]]

\* Variant: with no match at the cursor the candidate at the cursor is
\* taken.
ConfirmTarget_CandidateFallback ==
    LET matched_string ==
            IF selected_index < Len(matches)
            THEN candidates[matches[selected_index + 1].candidate_id + 1].string
            ELSE candidates[selected_index + 1].string
    IN  IF ~(selected_index < Len(matches) \/ selected_index < Len(candidates))
        THEN [outcome |-> "no_match"]
        ELSE IF matched_string \notin DOMAIN commands
             THEN [outcome |-> "no_entry"]
             ELSE LET v == commands[matched_string]
                  IN  IF v[2] \notin liveServers
                      THEN [outcome |-> "no_server"]
                      ELSE [outcome |-> "requested",
                            command |-> v[1], server |-> v[2]]

\* Variant: the match list is indexed with [] instead of get().
ConfirmTarget_Indexed ==
    IF ~(selected_index < Len(matches))
    THEN [outcome |-> "index_out_of_bounds"]
    ELSE LET mat == matches[selected_index + 1]
             matched_string == candidates[mat.candidate_id + 1].string
         IN  IF matched_string \notin DOMAIN commands
             THEN [outcome |-> "no_entry"]
             ELSE LET v == commands[matched_string]
                  IN  IF v[2] \notin liveServers
                      THEN [outcome |-> "no_server"]
                      ELSE [outcome |-> "requested",
                            command |-> v[1], server |-> v[2]]

\* What confirm resolves before spawning: the match at the cursor, its
\* candidate's string, the command entry, the live server.  matches.get
\* answers None past the end; candidates[..] panics past the end.
ConfirmTarget ==
    IF ~(selected_index < Len(matches))
    THEN [outcome |-> "no_match"]
    ELSE LET mat == matches[selected_index + 1]
         IN  IF ~(mat.candidate_id < Len(candidates))
             THEN [outcome |-> "index_out_of_bounds"]
             ELSE LET matched_string == candidates[mat.candidate_id + 1].string
                  IN  IF matched_string \notin DOMAIN commands
                      THEN [outcome |-> "no_entry"]
                      ELSE LET v == commands[matched_string]
                           IN  IF v[2] \notin liveServers
                               THEN [outcome |-> "no_server"]
                               ELSE [outcome |-> "requested",
                                     command |-> v[1], server |-> v[2]]

\* lsp::ExecuteCommandParams { command, arguments: vec![], .. } sent to
\* language_server
ExecuteCommand(target) ==
    [server |-> target.server, command |-> target.command,
     arguments |-> <<>>, state |-> "pending"]

\* dismissed(): command_selector.update(cx, |_, cx| cx.emit(DismissEvent))
\*              .log_err()
EmitDismiss ==
    IF selectorAlive
    THEN /\ dismissEvents' = dismissEvents + 1
         /\ UNCHANGED errorsLogged
    ELSE /\ errorsLogged' = errorsLogged + 1
         /\ UNCHANGED dismissEvents

\* Variant: the selector is dismissed only when nothing was spawned.
Confirm_CloseUnlessSpawned ==
    /\ Displayed
    /\ LET target == ConfirmTarget
       IN  /\ requests' = IF target.outcome = "requested"
                          THEN Append(requests, ExecuteCommand(target))
                          ELSE requests
           /\ confirmLog' = Append(confirmLog,
                  [outcome |-> target.outcome, match_count |-> Len(matches)])
           /\ IF target.outcome = "requested"
              THEN UNCHANGED <<dismissEvents, errorsLogged>>
              ELSE EmitDismiss
    /\ UNCHANGED <<servers, liveServers, commands, candidates, matches,
                   selected_index, tasks, applied,
                   cursorFound, dismissCalls, selectorAlive,
                   pickerAlive>>

\* confirm(): spawn the request when everything resolves, then dismissed();
\* a panic in the lookup unwinds before dismissed() is reached.
Confirm ==
    /\ Displayed
    /\ LET target == ConfirmTarget
       IN  /\ requests' = IF target.outcome = "requested"
                          THEN Append(requests, ExecuteCommand(target))
                          ELSE requests
           /\ confirmLog' = Append(confirmLog,
                  [outcome |-> target.outcome, match_count |-> Len(matches)])
           /\ IF target.outcome = "index_out_of_bounds"
              THEN UNCHANGED <<dismissEvents, errorsLogged>>
              ELSE EmitDismiss
    /\ UNCHANGED <<servers, liveServers, commands, candidates, matches,
                   selected_index, tasks, applied,
                   cursorFound, dismissCalls, selectorAlive,
                   pickerAlive>>

\* dismissed() called by the picker itself (cancel, blur).
Dismissed ==
    /\ pickerAlive
    /\ dismissCalls < MaxDismiss
    /\ dismissCalls' = dismissCalls + 1
    /\ EmitDismiss
    /\ UNCHANGED <<servers, liveServers, commands, candidates, matches,
                   selected_index, tasks, applied,
                   cursorFound, requests, confirmLog,
                   selectorAlive, pickerAlive>>

\* Variant: a failed request is issued again.
RequestResponds_Retry(r, outcome) ==
    /\ r \in 1..Len(requests)
    /\ requests[r].state = "pending"
    /\ requests' = IF outcome = "failed"
                   THEN Append([requests EXCEPT ![r].state = outcome],
                               [requests[r] EXCEPT !.state = "pending"])
                   ELSE [requests EXCEPT ![r].state = outcome]
    /\ errorsLogged' = IF outcome = "failed" THEN errorsLogged + 1
                       ELSE errorsLogged
    /\ UNCHANGED <<servers, liveServers, commands, candidates, matches,
                   selected_index, tasks, applied,
                   cursorFound, confirmLog, dismissCalls,
                   dismissEvents, selectorAlive, pickerAlive>>

\* The detached request task resolves; detach_and_log_err logs a failure.
RequestResponds(r, outcome) ==
    /\ r \in 1..Len(requests)
    /\ requests[r].state = "pending"
    /\ requests' = [requests EXCEPT ![r].state = outcome]
    /\ errorsLogged' = IF outcome = "failed" THEN errorsLogged + 1
                       ELSE errorsLogged
    /\ UNCHANGED <<servers, liveServers, commands, candidates, matches,
                   selected_index, tasks, applied,
                   cursorFound, confirmLog, dismissCalls,
                   dismissEvents, selectorAlive, pickerAlive>>

\* A language server goes away: language_server_for_id(id) becomes None.
\* Only confirm reads the registry, so servers are stopped while a confirm
\* can still follow.
ServerStops(id) ==
    /\ id \in liveServers
    /\ Displayed
    /\ liveServers' = liveServers \ {id}
    /\ UNCHANGED <<servers, commands, candidates, matches, selected_index,
                   tasks, applied,
                   cursorFound, requests, confirmLog, dismissCalls,
                   dismissEvents, errorsLogged, selectorAlive, pickerAlive>>

\* The workspace reacts to a DismissEvent by dropping the modal.
HostClosesModal ==
    /\ selectorAlive
    /\ dismissEvents > 0
    /\ selectorAlive' = FALSE
    /\ UNCHANGED <<servers, liveServers, commands, candidates, matches,
                   selected_index, tasks, applied,
                   cursorFound, requests, confirmLog,
                   dismissCalls, dismissEvents, errorsLogged, pickerAlive>>

\* The picker entity, owned by the selector, is released after it.
PickerReleased ==
    /\ ~selectorAlive
    /\ pickerAlive
    /\ pickerAlive' = FALSE
    /\ UNCHANGED <<servers, liveServers, commands, candidates, matches,
                   selected_index, tasks, applied,
                   cursorFound, requests, confirmLog,
                   dismissCalls, dismissEvents, errorsLogged, selectorAlive>>

Next ==
    \/ \E ix \in 0..MaxIx : SetSelectedIndex(ix)
    \/ \E query \in Queries : UpdateMatches(query)
    \/ \E t \in 1..MaxEvals : EvaluationCompletes(t)
    \/ Confirm
    \/ Dismissed
    \/ \E r \in 1..Len(requests) : \E outcome \in {"ok", "failed"} :
          RequestResponds(r, outcome)
    \/ \E id \in liveServers : ServerStops(id)
    \/ HostClosesModal
    \/ PickerReleased

Spec == Init /\ [][Next]_vars

\* The same selector opened on the large registry.
SpecLarge == InitLarge /\ [][Next]_vars

\* Every evaluation started so far has been applied.
AllApplied ==
    \A t \in 1..Len(tasks) :
        /\ tasks[t].pc = "finished"
        /\ \E i \in 1..Len(applied) : applied[i] = t

\* update_matches(query) called by a user who edits the query only after
\* the previous evaluation has been applied.
UpdateMatchesInTurn(query) ==
    /\ AllApplied
    /\ UpdateMatches(query)

NextInTurn ==
    \/ \E ix \in 0..MaxIx : SetSelectedIndex(ix)
    \/ \E query \in Queries : UpdateMatchesInTurn(query)
    \/ \E t \in 1..MaxEvals : EvaluationCompletes(t)
    \/ Confirm
    \/ Dismissed
    \/ \E r \in 1..Len(requests) : \E outcome \in {"ok", "failed"} :
          RequestResponds(r, outcome)
    \/ \E id \in liveServers : ServerStops(id)
    \/ HostClosesModal
    \/ PickerReleased

\* Evaluation t has been spawned and has not run to its end.
Running(t) == t \in 1..Len(tasks) /\ tasks[t].pc = "running"

\* EvaluationCompletes(t) can be taken exactly while t is running.
EnabledWhenRunning ==
    \A t \in 1..MaxEvals :
        (ENABLED <<EvaluationCompletes(t)>>_vars) <=> Running(t)

\* The executor runs every spawned evaluation to its end: weak fairness of
\* EvaluationCompletes(t), namely
\*   []<>~(ENABLED <<EvaluationCompletes(t)>>_vars)
\*       \/ []<><<EvaluationCompletes(t)>>_vars,
\* with the enabling condition written as the state predicate it equals.
ExecutorFair(t) ==
    \/ []<>~Running(t)
    \/ []<><<EvaluationCompletes(t)>>_vars

Fairness == \A t \in 1..MaxEvals : ExecutorFair(t)

\* The selector with query edits in turn and a fair executor.
SpecInTurn == Init /\ [][NextInTurn]_vars /\ Fairness

\* The queries typed when only the match engine is exercised.
EngineQueries == Queries \cup { <<"f">>, <<"f", "a">> }

InitEngine == New(Registries \cup LargeRegistries)

\* Query edits, evaluations and cursor moves only.
NextEngine ==
    \/ \E ix \in 0..MaxIx : SetSelectedIndex(ix)
    \/ \E query \in EngineQueries : UpdateMatches(query)
    \/ \E t \in 1..MaxEvals : EvaluationCompletes(t)

SpecEngine == InitEngine /\ [][NextEngine]_vars

\* ===================================================================
\* Properties
\* ===================================================================

\* This step applies the result of evaluation t to the picker.
Applies(t) ==
    /\ t \in 1..Len(tasks)
    /\ tasks[t].pc = "running"
    /\ tasks'[t].pc = "finished"
    /\ pickerAlive

\* This step is a confirm call.
ConfirmStep == Len(confirmLog') = Len(confirmLog) + 1

Overwritten ==
    /\ Len(applied) >= 2
    /\ \E i \in 1..(Len(applied) - 1) :
          applied[i] > applied[Len(applied)]

\* C2: evaluations are neither cancelled nor sequence-checked: a running
\* evaluation stays running until it completes, whichever evaluation
\* completes has its result written over the match list, also when a
\* later-started one was applied before it, and the overwritten list stays
\* until another evaluation is applied.
C2_StaleOverwrite ==
    [][/\ \A t \in 1..Len(tasks) :
            /\ tasks[t].pc = "running" => tasks'[t].pc \in {"running", "finished"}
            /\ Applies(t) =>
                 matches' = ComputeMatches(tasks[t].query, candidates)
       /\ (Overwritten /\ applied' = applied) =>
            (Overwritten' /\ matches' = matches)]_vars

\* The newer query's result was applied first and the older query's
\* result, a different list, is the one displayed.
C2_Witness ==
    /\ Len(tasks) = 2
    /\ Len(applied) = 2
    /\ applied = <<2, 1>>
    /\ tasks[1].query # tasks[2].query
    /\ matches = tasks[1].matches
    /\ matches # tasks[2].matches

\* The query whose result is displayed.
DisplayedQuery == tasks[applied[Len(applied)]].query

\* C3 as claimed: the match list held by the selector never has more than
\* 100 entries, whatever the query and the number of candidates.
C3_AtMostMaxResults == Len(matches) <= MaxResults

\* C3, amended: the result of a non-empty query has at most 100 entries;
\* the result of the empty query has one entry per candidate, however many
\* candidates there are.
C3_CappedUnlessEmptyQuery ==
    /\ \A t \in 1..Len(tasks) :
          tasks[t].pc = "finished" =>
            IF tasks[t].query = <<>>
            THEN Len(tasks[t].matches) = Len(candidates)
            ELSE Len(tasks[t].matches) <= MaxResults
    /\ applied # <<>> =>
          IF DisplayedQuery = <<>>
          THEN Len(matches) = Len(candidates)
          ELSE Len(matches) <= MaxResults

\* More than 100 candidates match the displayed non-empty query and
\* exactly 100 of them are listed.
C3_Witness ==
    /\ applied # <<>>
    /\ DisplayedQuery # <<>>
    /\ Cardinality({i \in 1..Len(candidates) :
          Len(MatchPositions(candidates[i].string, DisplayedQuery, 1, 1))
            = Len(DisplayedQuery)}) > MaxResults
    /\ Len(matches) = MaxResults

\* C4: the result of the empty query has exactly one match per candidate,
\* match i being candidate i with its display string, no highlight
\* positions and score 0.
C4_EmptyQueryListsAll ==
    \A t \in 1..Len(tasks) :
        (tasks[t].pc = "finished" /\ tasks[t].query = <<>>) =>
          LET ms == tasks[t].matches
          IN  /\ Len(ms) = Len(candidates)
              /\ \A i \in 1..Len(ms) :
                    /\ ms[i].candidate_id = candidates[i].id
                    /\ ms[i].candidate_id = i - 1
                    /\ ms[i].string = candidates[i].string
                    /\ ms[i].positions = <<>>
                    /\ ms[i].score = 0
              /\ \A i, j \in 1..Len(ms) :
                    ms[i].candidate_id = ms[j].candidate_id => i = j

\* The empty query was evaluated over several candidates and its result is
\* displayed.
C4_Witness ==
    /\ applied # <<>>
    /\ DisplayedQuery = <<>>
    /\ Len(candidates) >= 2
    /\ matches = tasks[applied[Len(applied)]].matches
    /\ Len(matches) = Len(candidates)

\* C5: every confirm emits the DismissEvent within the confirm step, on
\* every path, and a request spawned by that step is still pending when
\* the step ends.
C5_ConfirmAlwaysCloses ==
    [][ConfirmStep =>
          /\ dismissEvents' = dismissEvents + 1
          /\ \A r \in (Len(requests) + 1)..Len(requests') :
                requests'[r].state = "pending"]_vars

\* A confirm spawned a request, the selector has been closed and the
\* request has not been answered.
C5_Witness ==
    /\ \E i \in 1..Len(confirmLog) : confirmLog[i].outcome = "requested"
    /\ \E r \in 1..Len(requests) : requests[r].state = "pending"
    /\ dismissEvents >= 1
    /\ ~selectorAlive

\* C6: a confirm spawns at most one request, and a request it spawns goes
\* to the server recorded in the command entry of the selected match's
\* display string, with that entry's command and no arguments.
C6_DispatchFollowsEntry ==
    [][ConfirmStep =>
          \/ requests' = requests
          \/ /\ selected_index < Len(matches)
             /\ LET string == matches[selected_index + 1].string
                IN  /\ string \in DOMAIN commands
                    /\ requests' = Append(requests,
                          [server |-> commands[string][2],
                           command |-> commands[string][1],
                           arguments |-> <<>>,
                           state |-> "pending"])]_vars

\* A request was spawned for the match under the cursor, whose candidate
\* index differs from its place in the match list.
C6_Witness ==
    /\ Len(requests) = 1
    /\ \E i \in 1..Len(confirmLog) : confirmLog[i].outcome = "requested"
    /\ selected_index < Len(matches)
    /\ matches[selected_index + 1].candidate_id # selected_index
    /\ commands[matches[selected_index + 1].string]
         = <<requests[1].command, requests[1].server>>

\* The server recorded for the match under the cursor is not live.
SelectedServerGone ==
    /\ selected_index < Len(matches)
    /\ matches[selected_index + 1].string \in DOMAIN commands
    /\ commands[matches[selected_index + 1].string][2] \notin liveServers

\* C7: a confirm whose selected command belongs to a server that is no
\* longer live spawns no request and still emits the DismissEvent.
C7_GoneServerNoDispatch ==
    [][(ConfirmStep /\ SelectedServerGone) =>
          /\ requests' = requests
          /\ dismissEvents' = dismissEvents + 1]_vars

\* A confirm found a match whose server had stopped: nothing was spawned
\* and the selector was dismissed.
C7_Witness ==
    /\ \E i \in 1..Len(confirmLog) :
          confirmLog[i].outcome = "no_server" /\ confirmLog[i].match_count > 0
    /\ requests = <<>>
    /\ dismissEvents >= 1

\* C8: a confirm on an empty match list spawns no request and still emits
\* the DismissEvent.
C8_EmptyListNoDispatch ==
    [][(ConfirmStep /\ matches = <<>>) =>
          /\ requests' = requests
          /\ dismissEvents' = dismissEvents + 1]_vars

\* A confirm came before any evaluation was applied, with candidates in
\* the index: nothing was spawned and the selector was dismissed.
C8_Witness ==
    /\ \E i \in 1..Len(confirmLog) :
          confirmLog[i].outcome = "no_match" /\ confirmLog[i].match_count = 0
    /\ applied = <<>>
    /\ candidates # <<>>
    /\ requests = <<>>
    /\ dismissEvents >= 1

\* C9: the index holds one command entry and one candidate per distinct
\* display string, and the entry of a string inserted more than once is
\* the command and server of its last insertion.
C9_LastWriteWins ==
    LET ins == Insertions(servers)
    IN  /\ DOMAIN commands = {ins[i].key : i \in 1..Len(ins)}
        /\ Len(candidates) = Cardinality(DOMAIN commands)
        /\ \A i \in 1..Len(ins) :
              /\ Cardinality({c \in 1..Len(candidates) :
                    candidates[c].string = ins[i].key}) = 1
              /\ (\A j \in (i + 1)..Len(ins) : ins[j].key # ins[i].key)
                    => commands[ins[i].key] = ins[i].value

\* Two servers produced the same display string, and the index was built.
C9_Witness ==
    LET ins == Insertions(servers)
    IN  \E i, j \in 1..Len(ins) :
          /\ i < j
          /\ ins[i].key = ins[j].key
          /\ ins[i].value[2] # ins[j].value[2]
          /\ commands[ins[i].key] = ins[j].value
          /\ servers[1].id = 2

\* The cursor indexes a match whenever there is one.
CursorInRange ==
    Len(matches) > 0 => (0 <= selected_index /\ selected_index < Len(matches))

\* This step is set_selected_index(ix) with ix >= match_count.
OutOfRangeSet ==
    /\ matches' = matches
    /\ selected_index' # selected_index
    /\ selected_index' >= Len(matches)

Matching(c, query) ==
    Len(MatchPositions(candidates[c].string, query, 1, 1)) = Len(query)

\* Match a comes before match b in the result order.
RanksBefore(a, b) ==
    \/ a.score > b.score
    \/ a.score = b.score /\ a.candidate_id < b.candidate_id

\* C11: the result of a non-empty query holds only candidates that match
\* the query, each at most once, in descending score with equal scores in
\* ascending candidate index, and is the first 100 entries of that order.
C11_ScoredResultOrdered ==
    \A t \in 1..Len(tasks) :
        (tasks[t].pc = "finished" /\ tasks[t].query # <<>>) =>
          LET ms == tasks[t].matches
              query == tasks[t].query
              hits == {c \in 1..Len(candidates) : Matching(c, query)}
              listed == {ms[i].candidate_id + 1 : i \in 1..Len(ms)}
          IN  /\ listed \subseteq hits
              /\ Cardinality(listed) = Len(ms)
              /\ \A i \in 1..Len(ms) :
                    /\ ms[i].string = candidates[ms[i].candidate_id + 1].string
                    /\ Len(ms[i].positions) = Len(query)
                    /\ \A q \in 1..Len(query) :
                          Lower(ms[i].string[ms[i].positions[q] + 1])
                            = Lower(query[q])
              /\ \A i \in 1..(Len(ms) - 1) : RanksBefore(ms[i], ms[i + 1])
              /\ Len(ms) = Min(Cardinality(hits), MaxResults)
              /\ \A c \in hits \ listed :
                    \A i \in 1..Len(ms) :
                       RanksBefore(ms[i], ScoreCandidate(candidates[c], query))

\* A non-empty query was evaluated whose result leaves a candidate out and
\* lists a later candidate before an earlier one.
C11_Witness ==
    \E t \in 1..Len(tasks) :
        /\ tasks[t].pc = "finished"
        /\ tasks[t].query # <<>>
        /\ Len(tasks[t].matches) >= 2
        /\ Len(tasks[t].matches) < Len(candidates)
        /\ tasks[t].matches[1].score > tasks[t].matches[2].score
        /\ tasks[t].matches[1].candidate_id > tasks[t].matches[2].candidate_id

\* The offsets at which sub occurs in str as a contiguous substring.
SubstringOffsets(str, sub) ==
    { k \in 0..(Len(str) - Len(sub)) :
        \A i \in 1..Len(sub) : str[k + i] = sub[i] }

\* The providers of the end-to-end example.
ExampleProviders ==
    /\ Len(servers) = 2
    /\ servers[1].name = Str_rust_analyzer /\ servers[1].has_provider
    /\ servers[1].commands = <<Str_format, Str_organizeImports>>
    /\ servers[2].name = Str_eslint /\ servers[2].has_provider
    /\ servers[2].commands = <<Str_fixAll>>

Str_rust_analyzer_format ==
    <<"r","u","s","t","-","a","n","a","l","y","z","e","r",":"," ",
      "f","o","r","m","a","t">>

\* C12: with rust-analyzer advertising {format, organizeImports} and eslint
\* advertising {fixAll}, an evaluation of the empty query yields 3 matches
\* in candidate-list order, and an evaluation of "format" yields exactly one
\* match, "rust-analyzer: format", highlighted at the offsets of the
\* substring "format" in that string.
C12_EndToEndExample ==
    ExampleProviders =>
        \A t \in 1..Len(tasks) :
            tasks[t].pc = "finished" =>
                LET result == tasks[t].matches
                IN  /\ tasks[t].query = <<>> =>
                          /\ Len(result) = 3
                          /\ Len(candidates) = 3
                          /\ \A i \in 1..3 :
                                /\ result[i].string = candidates[i].string
                                /\ result[i].candidate_id = candidates[i].id
                    /\ tasks[t].query = Str_format =>
                          /\ Len(result) = 1
                          /\ result[1].string = Str_rust_analyzer_format
                          /\ \E k \in SubstringOffsets(result[1].string,
                                                       Str_format) :
                                result[1].positions =
                                    [i \in 1..Len(Str_format) |-> k + i - 1]

C12_Witness ==
    /\ ExampleProviders
    /\ \E t, u \in 1..Len(tasks) :
          /\ tasks[t].pc = "finished" /\ tasks[t].query = <<>>
          /\ Len(tasks[t].matches) = 3
          /\ tasks[u].pc = "finished" /\ tasks[u].query = Str_format
          /\ Len(tasks[u].matches) = 1
          /\ tasks[u].matches[1].positions = <<15, 16, 17, 18, 19, 20>>
    /\ applied # <<>>

\* C13: in every reachable state every entry of the match list has a
\* candidate id that indexes the candidate list, carries that candidate's
\* display string, and that string is a key of the command map.
C13_MatchesReferToCandidates ==
    \A i \in 1..Len(matches) :
        /\ matches[i].candidate_id \in 0..(Len(candidates) - 1)
        /\ matches[i].string = candidates[matches[i].candidate_id + 1].string
        /\ matches[i].string \in DOMAIN commands

\* Two evaluations applied out of order, the displayed one scored, and its
\* first match not the first candidate.
C13_Witness ==
    /\ Len(applied) = 2 /\ applied[1] > applied[2]
    /\ DisplayedQuery # <<>>
    /\ matches # <<>>
    /\ matches[1].candidate_id > 0

\* This step completes evaluation t after the picker was destroyed.
CompletesOrphaned(t) ==
    /\ t \in 1..Len(tasks)
    /\ tasks[t].pc = "running"
    /\ tasks'[t].pc = "finished"
    /\ ~pickerAlive

\* This step is a dismissed() call made after the selector was destroyed.
DismissesOrphaned ==
    /\ dismissCalls' = dismissCalls + 1
    /\ ~selectorAlive

\* C14: an evaluation completing after its picker was destroyed applies
\* nothing: the failed write-back is logged and the match list, the cursor
\* and every other part of the state stay as they were; a dismissed() whose
\* selector is gone logs and emits nothing.
C14_OrphanedStepsOnlyLog ==
    [][ /\ (\E t \in 1..MaxEvals : CompletesOrphaned(t)) =>
              /\ errorsLogged' = errorsLogged + 1
              /\ Len(tasks') = Len(tasks)
              /\ UNCHANGED <<servers, liveServers, commands, candidates,
                             matches, selected_index, applied, cursorFound,
                             requests, confirmLog, dismissCalls,
                             dismissEvents, selectorAlive, pickerAlive>>
        /\ DismissesOrphaned =>
              /\ errorsLogged' = errorsLogged + 1
              /\ UNCHANGED <<servers, liveServers, commands, candidates,
                             matches, selected_index, tasks, applied,
                             cursorFound, requests, confirmLog,
                             dismissEvents, selectorAlive, pickerAlive>>
      ]_vars

\* Confirm closed the selector, the picker's own dismissed() came after
\* the selector was gone, and an evaluation finished after the picker was.
C14_Witness ==
    /\ ~pickerAlive
    /\ \E t \in 1..Len(tasks) :
          /\ tasks[t].pc = "finished"
          /\ \A i \in 1..Len(applied) : applied[i] # t
    /\ confirmLog # <<>>
    /\ requests = <<>>
    /\ dismissCalls = 1
    /\ dismissEvents = 1
    /\ errorsLogged = 2

\* This step is the failure of the pending request r.
RequestFails(r) ==
    /\ r \in 1..Len(requests)
    /\ requests[r].state = "pending"
    /\ r \in 1..Len(requests')
    /\ requests'[r].state = "failed"

\* C15: a dispatched request that fails is only logged: the step adds one
\* log entry, marks that request failed, issues no other request, changes
\* no selector state, and the selector, closed by the confirm that
\* dispatched the request, stays closed.
C15_FailureOnlyLogged ==
    [][ \A r \in 1..Len(requests) :
            RequestFails(r) =>
                /\ errorsLogged' = errorsLogged + 1
                /\ requests' = [requests EXCEPT ![r].state = "failed"]
                /\ UNCHANGED <<servers, liveServers, commands, candidates,
                               matches, selected_index, tasks, applied,
                               cursorFound, confirmLog, dismissCalls,
                               dismissEvents, selectorAlive, pickerAlive>>
                /\ dismissEvents >= 1
                /\ ~Displayed'
      ]_vars

\* A request has failed with a non-empty match list on the closed selector.
C15_Witness ==
    /\ \E r \in 1..Len(requests) : requests[r].state = "failed"
    /\ errorsLogged >= 1
    /\ matches # <<>>
    /\ dismissEvents >= 1

\* The candidate list and the command map correspond one to one: the
\* candidate indices are 0..n-1 in list order, n the number of map keys,
\* and each key is the display string of exactly one candidate.
Correspondence ==
    /\ Len(candidates) = Cardinality(DOMAIN commands)
    /\ \A i \in 1..Len(candidates) :
          /\ candidates[i].id = i - 1
          /\ candidates[i].string \in DOMAIN commands
    /\ \A key \in DOMAIN commands :
          Cardinality({ i \in 1..Len(candidates) :
                          candidates[i].string = key }) = 1

\* C16: the candidate list and the command map are in 1:1 correspondence
\* from construction on, and no step (set_selected_index, update_matches,
\* its completion, confirm, dismissed, or any other) changes a candidate or
\* a command entry; every evaluation works on an equal copy of the list.
C16_IndexFixedAtConstruction ==
    [][ /\ Correspondence
        /\ Correspondence'
        /\ UNCHANGED <<candidates, commands>>
        /\ \A t \in 1..Len(tasks') : tasks'[t].candidates = candidates
      ]_vars

\* Every operation has run on an index in which two insertions shared a key.
C16_Witness ==
    /\ Len(Insertions(servers)) > Cardinality(DOMAIN commands)
    /\ Len(candidates) = 2
    /\ Len(applied) = 2
    /\ selected_index = 1
    /\ confirmLog # <<>>
    /\ dismissCalls = 1

\* Some evaluation is applied in this step.
ApplyStep == \E t \in 1..MaxEvals : Applies(t)

\* A step that changes the cursor and nothing else: set_selected_index.
SetStep ==
    /\ selected_index' # selected_index
    /\ UNCHANGED <<servers, liveServers, commands, candidates, matches,
                   tasks, applied, cursorFound, requests, confirmLog,
                   dismissCalls, dismissEvents, errorsLogged, selectorAlive,
                   pickerAlive>>

\* A step that starts an evaluation, confirms, dismisses, or resolves a
\* dispatched request.
OtherOperationStep ==
    \/ Len(tasks') > Len(tasks)
    \/ ConfirmStep
    \/ dismissCalls' # dismissCalls
    \/ requests' # requests

\* C17 as stated: the match list and the cursor change only in a step that
\* applies a completed evaluation.
C17_OnlyApplyMutates ==
    [][ (matches' # matches \/ selected_index' # selected_index)
            => ApplyStep ]_vars

\* C17: the match list changes only in a step that applies a completed
\* evaluation, and the cursor only in such a step or in set_selected_index;
\* starting an evaluation, confirm, dismissed and a resolving dispatch leave
\* both unchanged.
C17_OnlyApplyOrSetMutates ==
    [][ /\ matches' # matches => ApplyStep
        /\ selected_index' # selected_index => (ApplyStep \/ SetStep)
        /\ OtherOperationStep => UNCHANGED <<matches, selected_index>>
      ]_vars

\* The cursor has moved although no evaluation has been applied yet.
C17_Witness ==
    /\ selected_index = 1
    /\ applied = <<>>
    /\ Len(tasks) = 1
    /\ tasks[1].pc = "running"

\* The state after a call that stored ix and touched nothing else.
StoredVerbatim(ix) ==
    /\ selected_index' = ix
    /\ UNCHANGED <<servers, liveServers, commands, candidates, matches,
                   tasks, applied, cursorFound, requests, confirmLog,
                   dismissCalls, dismissEvents, errorsLogged, selectorAlive,
                   pickerAlive>>

\* C18: on the open selector set_selected_index(ix) can be called with any
\* ix, below match_count or not, and its only outcome is the state with ix
\* as the cursor and everything else (match list, candidates, command
\* entries, open status, evaluations in flight) as before.
C18_SetStoresVerbatim ==
    Displayed =>
        \A ix \in 0..MaxIx :
            /\ ENABLED (SetSelectedIndex(ix) /\ StoredVerbatim(ix))
            /\ ~ ENABLED (SetSelectedIndex(ix) /\ ~StoredVerbatim(ix))

\* The cursor was set past the end of a non-empty match list while an
\* evaluation was in flight.
C18_Witness ==
    /\ Displayed
    /\ matches # <<>>
    /\ selected_index >= Len(matches)
    /\ cursorFound < Len(matches)
    /\ \E t \in 1..Len(tasks) : tasks[t].pc = "running"

\* The match at the cursor, when there is one, names an existing candidate.
MatchAtCursorResolves ==
    selected_index < Len(matches) =>
        matches[selected_index + 1].candidate_id \in 0..(Len(candidates) - 1)

\* C19: confirm never reads out of range: no confirm ends in an index out
\* of bounds; a confirm with the cursor at or past match_count finds no
\* match, dispatches nothing and closes; and in every state the match at
\* the cursor, if any, has a candidate id that indexes the candidate list.
C19_ConfirmReadsInRange ==
    [][ /\ MatchAtCursorResolves
        /\ MatchAtCursorResolves'
        /\ ConfirmStep =>
              LET entry == confirmLog'[Len(confirmLog')]
              IN  /\ entry.outcome # "index_out_of_bounds"
                  /\ selected_index >= Len(matches) =>
                        /\ entry.outcome = "no_match"
                        /\ requests' = requests
                        /\ dismissEvents' = dismissEvents + 1
      ]_vars

\* A confirm found the cursor past the end of a non-empty match list, left
\* there by set_selected_index after the last applied evaluation.
C19_Witness ==
    /\ confirmLog # <<>>
    /\ confirmLog[Len(confirmLog)].outcome = "no_match"
    /\ confirmLog[Len(confirmLog)].match_count > 0
    /\ selected_index >= Len(matches)
    /\ applied # <<>>
    /\ requests = <<>>
    /\ dismissEvents = 1

WasApplied(t) == \E i \in 1..Len(applied) : applied[i] = t

\* C20: with query edits made only after the previous evaluation was
\* applied, every started evaluation is eventually applied unless the
\* selector closes, and once every started evaluation is applied the match
\* list is the result for the most recently submitted query over the
\* candidate list built at construction.
C20_InTurnEvaluationsConverge ==
    /\ \A t \in 1..MaxEvals :
          Running(t) ~> (WasApplied(t) \/ ~Displayed)
    /\ [](  (tasks # <<>> /\ AllApplied) =>
                matches = ComputeMatches(tasks[Len(tasks)].query,
                                         candidates) )

\* Two queries were evaluated in turn on the open selector and the list
\* shows the second result, which differs from the first.
C20_Witness ==
    /\ Displayed
    /\ Len(tasks) = 2
    /\ applied = <<1, 2>>
    /\ tasks[1].query # tasks[2].query
    /\ tasks[1].matches # tasks[2].matches
    /\ matches = tasks[2].matches

=============================================================================
